---- MODULE Spec2Model ----
(***************************************************************************)
(* A model of the beefin interpreter (src/src/main.rs).                    *)
(*                                                                         *)
(* The engine is the record InterpreterState: the tape `cells`, the        *)
(* pointer `cell_index`, the counter `loops_opened`, the vector            *)
(* `loops_data` and the program text `file_content`.  parse,               *)
(* close_loop and execute_loop_context call each other recursively; the    *)
(* call stack is the variable `stack`, one record per active parse or      *)
(* execute_loop_context call, the innermost call last.                     *)
(*                                                                         *)
(* Two specifications:                                                     *)
(*   Spec     main(): new(), load_file(), parse(None) on a program text    *)
(*            and an input stream drawn from bounded sets;                 *)
(*   SpecOps  the language operations called directly on an engine, as     *)
(*            the unit tests of the source do.                             *)
(***************************************************************************)
EXTENDS Integers, Sequences, FiniteSets

VARIABLES
    file_content,   \* the program text, a sequence of one-character strings
    cells,          \* the non-zero entries of the [u8; 30000] array
    cell_index,     \* the pointer
    loops_opened,   \* the open-loop counter
    loops_data,     \* Vec<[usize; 2]>, a sequence of <<start, end>>
    stack,          \* call stack of parse / execute_loop_context
    status,         \* "running", "done" (main returned) or "panic"
    stdin,          \* bytes not yet read from standard input
    stdout,         \* what was written to standard output
    stderr,         \* what was written to standard error
    last,           \* the last operation performed and the state it saw
    steps           \* number of actions taken so far

vars == <<file_content, cells, cell_index, loops_opened, loops_data, stack,
          status, stdin, stdout, stderr, last, steps>>

-----------------------------------------------------------------------------
(* Bounds of the model *)

\* every program text of at most MaxLen characters is run
MaxLen == 3
\* a run is followed for at most MaxSteps actions
MaxSteps == 1100
\* SpecOps calls at most MaxCalls operations in a row
MaxCalls == 2

-----------------------------------------------------------------------------
(* The tape *)

\* cells: [u8; 30000]
TapeLen == 30000

\* u8
ByteMax == 255

\* self.cells[i]
Cell(cs, i) == IF i \in DOMAIN cs THEN cs[i] ELSE 0

\* self.cells[i] = v
SetCell(cs, i, v) ==
    IF v = 0
    THEN [j \in DOMAIN cs \ {i} |-> cs[j]]
    ELSE [j \in DOMAIN cs \cup {i} |-> IF j = i THEN v ELSE cs[j]]

\* [0; 30000]
ZeroTape == [j \in {} |-> 0]

-----------------------------------------------------------------------------
(* Language operations, as functions of the fields they read *)

\* a slip of increment: the conventional add-one, modulo 256
increment_add_one(v) == (v + 1) % (ByteMax + 1)

\* increment: the new value of the cell at the pointer
increment(v) == IF v = ByteMax THEN 0 ELSE ByteMax

\* a slip of decrement: the guard against 0 saturates instead of wrapping
decrement_saturating(v) == IF v = 0 THEN 0 ELSE v - 1

\* decrement: the new value of the cell at the pointer
decrement(v) == IF v = 0 THEN ByteMax ELSE v - 1

\* a slip of goto_next_cell: the wrap is taken one cell late
goto_next_cell_late_wrap(p) == IF p = TapeLen THEN 0 ELSE p + 1

\* goto_next_cell: the new pointer
goto_next_cell(p) == IF p = TapeLen - 1 THEN 0 ELSE p + 1

\* a slip of goto_previous_cell: the wrap lands on the length of the tape
goto_previous_cell_past_end(p) == IF p = 0 THEN TapeLen ELSE p - 1

\* goto_previous_cell: the new pointer
goto_previous_cell(p) == IF p = 0 THEN TapeLen - 1 ELSE p - 1

\* str::from_utf8(&[b]).is_ok(): a single byte is valid UTF-8 iff it is ASCII
from_utf8_ok(b) == b < 128

\* a slip of print: the raw byte is written whatever it is
print_raw_byte(v) == <<"byte", v>>

\* print: what is appended to standard output
print(v) == IF from_utf8_ok(v) THEN <<"byte", v>> ELSE <<"line", "Invalid utf8 char">>

\* stdin().read(&mut input) on a two-byte buffer: how many bytes one read may
\* return (0 at end of input, else 1 or 2, at most what the stream holds)
ReadSizes(s) == IF Len(s) = 0 THEN {0} ELSE {n \in 1..2 : n <= Len(s)}

\* input: let mut input = [0, 1]; read; cells[cell_index] = input[0]
input(s, n) == IF n = 0 THEN 0 ELSE s[1]

\* the rest of the stream after a read of n bytes
Drop(s, n) == SubSeq(s, n + 1, Len(s))

-----------------------------------------------------------------------------
(* Program texts *)

Operators == {"+", "-", ">", "<", ".", ",", "[", "]"}

\* "x" stands for every character that is no operator
Alphabet == Operators \cup {"x"}

\* every text of at most n characters
Texts(n) == UNION {[1..k -> Alphabet] : k \in 0..n}

\* longer programs: loops that run to completion, nested and back-to-back
\* loops, and one whose re-executed slice starts with a ']'
Corpus == {
    <<"]", "[", "[", "]", "[", "]", "+", "]">>,
    <<"+", "[", "-", "]">>,
    <<"+", "[", "-", "]", "x">>,
    <<"+", "[", "-", "]", "]">>,
    <<"+", "[", "-", "]", "]", "+">>,
    <<"+", "[", "-", "]", "+", "[", "-", "]">>,
    <<"+", "[", "-", "]", "+", "[", "-", "]", "+", "[", "-", "]">>,
    <<"[", "]", "+", "[", "-", "]">>,
    <<"[", "]", "[", "]", "]">>,
    <<"+", "[", "[", "-", "]", "]">>,
    <<"[", "[", "-", "]", "]">>,
    <<"[", "[", "]", "]", "+">>,
    <<"[", "+", "]", "]">>,
    <<"[", "[", "]", "x", "[", "]", "]">>,
    <<"+", "[", ">", "+", "[", "-", "]", "<", "-", "]">>,
    <<",", "[", "-", "]", ",", "[", "-", "]">>,
    <<",", "[", "-", ">", "+", "<", "]">>,
    <<",", ".", ",", ".">>,
    <<",", ".", "+", ".">>,
    <<"+", "+", "-">>,
    <<"+", "+", "+", "+", ".">>,
    <<"+", ">", "[", "+", "]", "<", "[", "-", "]">>,
    <<"<", "+", ">", ">">>
}

Programs == Texts(MaxLen) \cup Corpus

\* the input streams a run is given
Inputs == {
    <<>>, <<0>>, <<2>>, <<65>>, <<200>>,
    <<65, 66>>, <<2, 200>>, <<65, 66, 67>>, <<200, 0, 65>>
}

-----------------------------------------------------------------------------
(* The call stack *)

ParseFrame(chars) ==
    [fn |-> "parse", chars |-> chars, index |-> 0, loop_data |-> <<0, 0>>]

ExecFrame(loop_data) ==
    [fn |-> "execute_loop_context", chars |-> <<>>, index |-> 0,
     loop_data |-> loop_data]

Top == stack[Len(stack)]

Pop == SubSeq(stack, 1, Len(stack) - 1)

\* the innermost call is parse, about to dispatch character c of its text
Dispatching(c) ==
    /\ status = "running"
    /\ steps < MaxSteps
    /\ Len(stack) > 0
    /\ Top.fn = "parse"
    /\ Top.index < Len(Top.chars)
    /\ Top.chars[Top.index + 1] = c

\* the for loop of parse takes the next (index, char)
Advance == [stack EXCEPT ![Len(stack)].index = @ + 1]

\* what an operation saw: its name, the enumerate() index of its character,
\* the pointer and the cell at the pointer before it ran
Saw(op) ==
    [op |-> op,
     index |-> IF Len(stack) > 0 THEN Top.index ELSE 0,
     depth |-> Len(stack),
     ptr |-> cell_index,
     cell |-> Cell(cells, cell_index)]

\* &self.file_content[a..b]: the slice is taken iff a <= b <= len
SliceOk(a, b) == a <= b /\ b <= Len(file_content)

Slice(a, b) == SubSeq(file_content, a + 1, b)

-----------------------------------------------------------------------------
(* main: new(), load_file(), parse(None) *)

\* InterpreterState::new()
new ==
    /\ cell_index = 0
    /\ cells = ZeroTape
    /\ loops_opened = 0
    /\ loops_data = <<>>

\* a program without "," never reads the stream: it is run on the empty one
Init ==
    /\ new
    /\ file_content \in Programs
    /\ stdin \in Inputs
    /\ (\A i \in 1..Len(file_content) : file_content[i] # ",") => stdin = <<>>
    /\ stack = <<ParseFrame(file_content)>>
    /\ status = "running"
    /\ stdout = <<>>
    /\ stderr = <<>>
    /\ last = [op |-> "new", index |-> 0, depth |-> 0, ptr |-> 0, cell |-> 0]
    /\ steps = 0

\* '+' => self.increment()
Increment ==
    /\ Dispatching("+")
    /\ cells' = SetCell(cells, cell_index, increment(Cell(cells, cell_index)))
    /\ stack' = Advance
    /\ last' = Saw("increment")
    /\ steps' = steps + 1
    /\ UNCHANGED <<file_content, cell_index, loops_opened, loops_data, status,
                   stdin, stdout, stderr>>

\* '-' => self.decrement()
Decrement ==
    /\ Dispatching("-")
    /\ cells' = SetCell(cells, cell_index, decrement(Cell(cells, cell_index)))
    /\ stack' = Advance
    /\ last' = Saw("decrement")
    /\ steps' = steps + 1
    /\ UNCHANGED <<file_content, cell_index, loops_opened, loops_data, status,
                   stdin, stdout, stderr>>

\* '>' => self.goto_next_cell()
GotoNextCell ==
    /\ Dispatching(">")
    /\ cell_index' = goto_next_cell(cell_index)
    /\ stack' = Advance
    /\ last' = Saw("goto_next_cell")
    /\ steps' = steps + 1
    /\ UNCHANGED <<file_content, cells, loops_opened, loops_data, status,
                   stdin, stdout, stderr>>

\* '<' => self.goto_previous_cell()
GotoPreviousCell ==
    /\ Dispatching("<")
    /\ cell_index' = goto_previous_cell(cell_index)
    /\ stack' = Advance
    /\ last' = Saw("goto_previous_cell")
    /\ steps' = steps + 1
    /\ UNCHANGED <<file_content, cells, loops_opened, loops_data, status,
                   stdin, stdout, stderr>>

\* '.' => self.print()
Output ==
    /\ Dispatching(".")
    /\ stdout' = Append(stdout, print(Cell(cells, cell_index)))
    /\ stack' = Advance
    /\ last' = Saw("print")
    /\ steps' = steps + 1
    /\ UNCHANGED <<file_content, cells, cell_index, loops_opened, loops_data,
                   status, stdin, stderr>>

\* a slip of input: the pointer moves on after the byte is stored
Input_advances_pointer ==
    /\ Dispatching(",")
    /\ \E n \in ReadSizes(stdin) :
          /\ cells' = SetCell(cells, cell_index, input(stdin, n))
          /\ stdin' = Drop(stdin, n)
    /\ cell_index' = goto_next_cell(cell_index)
    /\ stack' = Advance
    /\ last' = Saw("input")
    /\ steps' = steps + 1
    /\ UNCHANGED <<file_content, loops_opened, loops_data, status, stdout,
                   stderr>>

\* ',' => self.input()
Input ==
    /\ Dispatching(",")
    /\ \E n \in ReadSizes(stdin) :
          /\ cells' = SetCell(cells, cell_index, input(stdin, n))
          /\ stdin' = Drop(stdin, n)
    /\ stack' = Advance
    /\ last' = Saw("input")
    /\ steps' = steps + 1
    /\ UNCHANGED <<file_content, cell_index, loops_opened, loops_data, status,
                   stdout, stderr>>

\* a slip of the dispatch: the catch-all arm falls into the arm of '+'
Comment_as_increment ==
    /\ \E c \in Alphabet \ Operators : Dispatching(c)
    /\ cells' = SetCell(cells, cell_index, increment(Cell(cells, cell_index)))
    /\ stack' = Advance
    /\ last' = Saw("comment")
    /\ steps' = steps + 1
    /\ UNCHANGED <<file_content, cell_index, loops_opened, loops_data, status,
                   stdin, stdout, stderr>>

\* _ => log!(Level::Debug, ...)
Comment ==
    /\ \E c \in Alphabet \ Operators : Dispatching(c)
    /\ stack' = Advance
    /\ last' = Saw("comment")
    /\ steps' = steps + 1
    /\ UNCHANGED <<file_content, cells, cell_index, loops_opened, loops_data,
                   status, stdin, stdout, stderr>>

\* open_loop: the frame pushed for the '[' at current_parser_index
open_loop(current_parser_index) == <<current_parser_index, 0>>

\* a slip of the dispatch: '[' on a zero cell skips to the next ']', as the
\* conventional while loop does
OpenLoop_skips_on_zero ==
    /\ Dispatching("[")
    /\ last' = Saw("open_loop")
    /\ steps' = steps + 1
    /\ IF Cell(cells, cell_index) = 0
       THEN LET closes == {j \in (Top.index + 2)..Len(Top.chars) :
                              Top.chars[j] = "]"}
                target == IF closes = {} THEN Len(Top.chars)
                          ELSE CHOOSE j \in closes : \A i \in closes : j <= i
            IN  /\ stack' = [stack EXCEPT ![Len(stack)].index = target]
                /\ UNCHANGED <<loops_data, loops_opened>>
       ELSE /\ loops_data' = Append(loops_data, open_loop(Top.index))
            /\ loops_opened' = loops_opened + 1
            /\ stack' = Advance
    /\ UNCHANGED <<file_content, cells, cell_index, status, stdin, stdout,
                   stderr>>

\* '[' => self.open_loop(index)
OpenLoop ==
    /\ Dispatching("[")
    /\ loops_data' = Append(loops_data, open_loop(Top.index))
    /\ loops_opened' = loops_opened + 1
    /\ stack' = Advance
    /\ last' = Saw("open_loop")
    /\ steps' = steps + 1
    /\ UNCHANGED <<file_content, cells, cell_index, status, stdin, stdout,
                   stderr>>

\* ']' => self.close_loop(index).  With loops_data empty, loops_cnt - 1
\* overflows (debug build) or indexes out of bounds (release build): a panic
\* in both.  When the counter equals the number of frames, close_loop calls
\* execute_loop_context, which reads the frame at loops_opened - 1 and panics
\* if its end is 0; the rest of close_loop runs when that call returns.
CloseLoop ==
    /\ Dispatching("]")
    /\ last' = Saw("close_loop")
    /\ steps' = steps + 1
    /\ LET loops_cnt == Len(loops_data)
           closed == [loops_data EXCEPT ![loops_cnt][2] = Top.index]
       IN  IF loops_opened = 0
           THEN /\ stderr' = Append(stderr, "Syntax Error")
                /\ stack' = Advance
                /\ UNCHANGED <<loops_data, loops_opened, status>>
           ELSE IF loops_cnt = 0
           THEN /\ status' = "panic"
                /\ stderr' = Append(stderr, "panic: index out of bounds")
                /\ stack' = Advance
                /\ UNCHANGED <<loops_data, loops_opened>>
           ELSE IF loops_opened # loops_cnt
           THEN /\ loops_data' = closed
                /\ loops_opened' = loops_opened - 1
                /\ stack' = Advance
                /\ UNCHANGED <<status, stderr>>
           ELSE IF closed[loops_opened][2] = 0
           THEN /\ loops_data' = closed
                /\ status' = "panic"
                /\ stderr' = Append(stderr, "panic: Missing enclosing ']'")
                /\ stack' = Advance
                /\ UNCHANGED loops_opened
           ELSE /\ loops_data' = closed
                /\ stack' = Append(Advance, ExecFrame(closed[loops_opened]))
                /\ UNCHANGED <<loops_opened, status, stderr>>
    /\ UNCHANGED <<file_content, cells, cell_index, stdin, stdout>>

\* execute_loop_context, one turn of `while self.cells[self.cell_index] > 0`:
\* slice the text and call parse on the slice
ExecuteLoopBody ==
    /\ status = "running"
    /\ steps < MaxSteps
    /\ Len(stack) > 0
    /\ Top.fn = "execute_loop_context"
    /\ Cell(cells, cell_index) > 0
    /\ last' = Saw("execute_loop_body")
    /\ steps' = steps + 1
    /\ IF SliceOk(Top.loop_data[1], Top.loop_data[2])
       THEN /\ stack' = Append(stack, ParseFrame(Slice(Top.loop_data[1], Top.loop_data[2])))
            /\ UNCHANGED <<status, stderr>>
       ELSE /\ status' = "panic"
            /\ stderr' = Append(stderr, "panic: slice index")
            /\ UNCHANGED stack
    /\ UNCHANGED <<file_content, cells, cell_index, loops_opened, loops_data,
                   stdin, stdout>>

\* execute_loop_context leaves the while loop, clears loops_data and returns
\* to close_loop, which ends with loops_opened -= 1.  On a counter of 0 the
\* subtraction panics (debug build) or wraps (release build); a wrapped
\* counter is kept as its two's complement reading, -1 for usize::MAX.
ExecuteLoopReturn ==
    /\ status = "running"
    /\ steps < MaxSteps
    /\ Len(stack) > 0
    /\ Top.fn = "execute_loop_context"
    /\ Cell(cells, cell_index) = 0
    /\ last' = Saw("execute_loop_return")
    /\ steps' = steps + 1
    /\ loops_data' = <<>>
    /\ stack' = Pop
    /\ \/ /\ loops_opened' = loops_opened - 1
          /\ UNCHANGED <<status, stderr>>
       \/ /\ loops_opened = 0
          /\ status' = "panic"
          /\ stderr' = Append(stderr, "panic: attempt to subtract with overflow")
          /\ UNCHANGED loops_opened
    /\ UNCHANGED <<file_content, cells, cell_index, stdin, stdout>>

\* a slip of parse: the check for a frame without end is made when the scan
\* of the program ends
ParseReturn_checks_unclosed ==
    /\ status = "running"
    /\ steps < MaxSteps
    /\ Len(stack) > 0
    /\ Top.fn = "parse"
    /\ Top.index = Len(Top.chars)
    /\ last' = Saw("parse_return")
    /\ steps' = steps + 1
    /\ IF Len(stack) = 1 /\ \E k \in 1..Len(loops_data) : loops_data[k][2] = 0
       THEN /\ status' = "panic"
            /\ stderr' = Append(stderr, "panic: Missing enclosing ']'")
            /\ UNCHANGED stack
       ELSE /\ stack' = Pop
            /\ status' = IF Len(stack) = 1 THEN "done" ELSE status
            /\ UNCHANGED stderr
    /\ UNCHANGED <<file_content, cells, cell_index, loops_opened, loops_data,
                   stdin, stdout>>

\* the for loop of parse is exhausted: parse returns to execute_loop_context,
\* or to main, which then returns
ParseReturn ==
    /\ status = "running"
    /\ steps < MaxSteps
    /\ Len(stack) > 0
    /\ Top.fn = "parse"
    /\ Top.index = Len(Top.chars)
    /\ last' = Saw("parse_return")
    /\ steps' = steps + 1
    /\ stack' = Pop
    /\ status' = IF Len(stack) = 1 THEN "done" ELSE status
    /\ UNCHANGED <<file_content, cells, cell_index, loops_opened, loops_data,
                   stdin, stdout, stderr>>

Next ==
    \/ Increment
    \/ Decrement
    \/ GotoNextCell
    \/ GotoPreviousCell
    \/ Output
    \/ Input
    \/ Comment
    \/ OpenLoop
    \/ CloseLoop
    \/ ExecuteLoopBody
    \/ ExecuteLoopReturn
    \/ ParseReturn

Spec == Init /\ [][Next]_vars

-----------------------------------------------------------------------------
(* The operations called directly on an engine, as in mod tests *)

\* pointers an engine is started at: both ends of the tape and the middle
StartIndexes == {0, 1, 15000, 29998, 29999}

\* An engine with the pointer at p and the value v in the cell at p.  new()
\* followed by p goto_next_cell, one increment and 255 - v decrement calls
\* yields it (v > 0), so every such engine is one the operations produce.
InitOps ==
    /\ cell_index \in StartIndexes
    /\ \E v \in 0..ByteMax : cells = SetCell(ZeroTape, cell_index, v)
    /\ loops_opened = 0
    /\ loops_data = <<>>
    /\ file_content = <<>>
    /\ stdin = <<>>
    /\ stack = <<>>
    /\ status = "running"
    /\ stdout = <<>>
    /\ stderr = <<>>
    /\ last = [op |-> "new", index |-> 0, depth |-> 0, ptr |-> cell_index,
               cell |-> Cell(cells, cell_index)]
    /\ steps = 0

Calling ==
    /\ steps < MaxCalls
    /\ steps' = steps + 1
    /\ UNCHANGED <<file_content, loops_opened, loops_data, stack, status,
                   stdin, stdout, stderr>>

\* i.increment()
CallIncrement ==
    /\ Calling
    /\ cells' = SetCell(cells, cell_index, increment(Cell(cells, cell_index)))
    /\ last' = Saw("increment")
    /\ UNCHANGED cell_index

\* i.decrement()
CallDecrement ==
    /\ Calling
    /\ cells' = SetCell(cells, cell_index, decrement(Cell(cells, cell_index)))
    /\ last' = Saw("decrement")
    /\ UNCHANGED cell_index

\* i.goto_next_cell()
CallGotoNextCell ==
    /\ Calling
    /\ cell_index' = goto_next_cell(cell_index)
    /\ last' = Saw("goto_next_cell")
    /\ UNCHANGED cells

\* i.goto_previous_cell()
CallGotoPreviousCell ==
    /\ Calling
    /\ cell_index' = goto_previous_cell(cell_index)
    /\ last' = Saw("goto_previous_cell")
    /\ UNCHANGED cells

NextOps ==
    \/ CallIncrement
    \/ CallDecrement
    \/ CallGotoNextCell
    \/ CallGotoPreviousCell

SpecOps == InitOps /\ [][NextOps]_vars

-----------------------------------------------------------------------------
(* Bracket structure of a text, by the usual matching rule *)

\* the number of '[' of text[1..k] not closed within text[1..k]; a ']' met
\* while none is open closes nothing
RECURSIVE OpenAfter(_, _)
OpenAfter(text, k) ==
    IF k = 0 THEN 0
    ELSE LET before == OpenAfter(text, k - 1)
         IN  IF text[k] = "[" THEN before + 1
             ELSE IF text[k] = "]" /\ before > 0 THEN before - 1
             ELSE before

\* text[i] is a ']' that closes a '['
ClosesLoop(text, i) == text[i] = "]" /\ OpenAfter(text, i - 1) > 0

\* text[i] is a ']' met while no '[' is open
StrayClose(text, i) == text[i] = "]" /\ OpenAfter(text, i - 1) = 0

\* every bracket of the text has its partner
Balanced(text) ==
    /\ OpenAfter(text, Len(text)) = 0
    /\ \A i \in 1..Len(text) : ~StrayClose(text, i)

\* the deepest nesting of the text
MaxDepth(text) ==
    LET depths == {OpenAfter(text, k) : k \in 0..Len(text)}
    IN  CHOOSE d \in depths : \A e \in depths : e <= d

\* the number of loops of the text
LoopCount(text) == Cardinality({i \in 1..Len(text) : ClosesLoop(text, i)})

\* parse(None), the call made by main, has just dispatched text[i] and every
\* call that made has returned
MainResumedAfter(i) ==
    /\ status = "running"
    /\ Len(stack) = 1
    /\ stack[1].index = i

\* parse(None) is about to dispatch text[i]
MainAbout(i) ==
    /\ status = "running"
    /\ Len(stack) = 1
    /\ stack[1].index = i - 1

-----------------------------------------------------------------------------
(* Claims *)

\* C1: whenever the scan of the program resumes after the ']' of a
\* well-formed loop, the cell at the pointer is zero and the Loop Stack is
\* empty.
C1_LoopEndsAtZeroWithEmptyStack ==
    \A i \in 1..Len(file_content) :
        (MainResumedAfter(i) /\ ClosesLoop(file_content, i))
            => (Cell(cells, cell_index) = 0 /\ loops_data = <<>>)

\* C2: a bracket-balanced program with nested loops never aborts on
\* bracket bookkeeping.
C2_NestedLoopsNeverAbort ==
    (Balanced(file_content) /\ MaxDepth(file_content) >= 2)
        => status # "panic"

\* C3: in a program of two or more back-to-back top-level loops, every loop
\* starts from an empty Loop Stack and has run to its fixed point (the cell
\* at the pointer is zero) once its ']' has been processed.
C3_BackToBackLoopsEachRunToFixedPoint ==
    (/\ Balanced(file_content)
     /\ MaxDepth(file_content) = 1
     /\ LoopCount(file_content) >= 2)
        => \A i \in 1..Len(file_content) :
              /\ (MainAbout(i) /\ file_content[i] = "[") => loops_data = <<>>
              /\ (MainResumedAfter(i) /\ file_content[i] = "]")
                    => Cell(cells, cell_index) = 0

\* C4: a ']' scanned by the program while no '[' is unmatched is reported
\* as a syntax error and does not abort the run; the cell at the pointer,
\* the pointer and the Loop Stack are as before.
C4_StrayCloseIsReportedNotFatal ==
    (/\ last.op = "close_loop"
     /\ last.depth = 1
     /\ StrayClose(file_content, last.index + 1)
     /\ Len(stack) = 1
     /\ stack[1].index = last.index + 1)
        => /\ status = "running"
           /\ stderr # <<>>
           /\ stderr[Len(stderr)] = "Syntax Error"
           /\ cell_index = last.ptr
           /\ Cell(cells, cell_index) = last.cell

C6_IncrementAddsOne ==
    (last.op = "increment" /\ last.cell < 255)
        => Cell(cells, cell_index) = last.cell + 1

\* C7: decrement sets a cell holding 0 to 255 and a cell holding v > 0 to
\* v - 1.
C7_DecrementWrapsAtZero ==
    last.op = "decrement"
        => /\ cell_index = last.ptr
           /\ Cell(cells, cell_index) =
                 (IF last.cell = 0 THEN 255 ELSE last.cell - 1)

C7_Witness ==
    /\ last.op = "decrement"
    /\ last.cell = 0
    /\ Cell(cells, cell_index) = 255

\* the text starts with i '+' followed by d '-', k characters in all
IncsThenDecs(text, k, i, d) ==
    /\ k = i + d
    /\ k <= Len(text)
    /\ \A j \in 1..k : text[j] = (IF j <= i THEN "+" ELSE "-")

\* C8: on a fresh engine, after i increments followed by d <= i decrements
\* the cell at the pointer holds i - d.
C8_DecrementCancelsOneIncrement ==
    \A i \in 0..Len(file_content) : \A d \in 0..i :
        (MainResumedAfter(i + d) /\ IncsThenDecs(file_content, i + d, i, d))
            => Cell(cells, cell_index) = i - d

C10_PointerAndCellsInRange ==
    /\ cell_index \in 0..29999
    /\ DOMAIN cells \subseteq 0..29999
    /\ \A j \in DOMAIN cells : cells[j] \in 0..255

C10_Witness ==
    /\ last.op = "increment"
    /\ last.ptr = 29999
    /\ cell_index = 29999
    /\ Cell(cells, 29999) = 255
    /\ Cell(cells, 0) = 0

\* C11: each executed ',' takes exactly one byte off the input stream and
\* stores it in the cell at the pointer, so that no byte is skipped.
C11_InputConsumesOneByte ==
    [][(last'.op = "input" /\ stdin # <<>>)
          => /\ stdin' = Tail(stdin)
             /\ Cell(cells', cell_index') = Head(stdin)]_vars

\* the text holds no operator character
OnlyComments(text) == \A i \in 1..Len(text) : text[i] \notin Operators

\* C12: a program of non-operator characters only never aborts, dispatches
\* each character once and then returns, and leaves every cell, the pointer,
\* the Loop Stack and the open-loop counter as new() made them.
C12_CommentsOnlyProgramChangesNothing ==
    OnlyComments(file_content)
        => /\ status # "panic"
           /\ steps <= Len(file_content) + 1
           /\ (steps <= Len(file_content)
                 => status = "running" /\ stack[1].index = steps)
           /\ (steps = Len(file_content) + 1 => status = "done")
           /\ cells = ZeroTape
           /\ cell_index = 0
           /\ loops_data = <<>>
           /\ loops_opened = 0

C12_Witness ==
    /\ file_content = <<"x", "x", "x">>
    /\ status = "done"
    /\ last.op = "parse_return"

\* C13: '.' emits exactly the byte of the cell at the pointer when it is
\* valid single-byte text (0..127) and a diagnostic line instead when it is
\* not (128..255); either way the run goes on with the next instruction and
\* leaves tape and pointer as they were.
C13_OutputEmitsByteOrDiagnostic ==
    [][last'.op = "print"
          => /\ stdout' = Append(stdout,
                    IF Cell(cells, cell_index) \in 0..127
                    THEN <<"byte", Cell(cells, cell_index)>>
                    ELSE <<"line", "Invalid utf8 char">>)
             /\ status' = "running"
             /\ stack' = [stack EXCEPT ![Len(stack)].index = @ + 1]
             /\ cells' = cells
             /\ cell_index' = cell_index
             /\ stderr' = stderr]_vars

C13_Witness ==
    /\ last.op = "print"
    /\ last.cell = 255
    /\ stdout = <<<<"byte", 65>>, <<"line", "Invalid utf8 char">>>>

\* C14: the open-loop counter equals the number of '[' of the source text
\* that are open where the scan of the program stands, and it is 0 again
\* after a bracket-balanced program has run.
C14_CounterCountsOpenBrackets ==
    /\ \A i \in 0..Len(file_content) :
          MainResumedAfter(i) => loops_opened = OpenAfter(file_content, i)
    /\ (status = "done" /\ Balanced(file_content)) => loops_opened = 0

\* the text has a bracket in it
HasBracket(text) == \E i \in 1..Len(text) : text[i] \in {"[", "]"}

\* C15: in a program whose loops hold no nested bracket, the text re-run by
\* an iteration is the characters strictly between the loop's '[' and ']':
\* it holds no bracket, and no Open Loop is performed while it is re-run.
C15_IterationExcludesBrackets ==
    (Balanced(file_content) /\ MaxDepth(file_content) <= 1)
        => /\ \A k \in 2..Len(stack) :
                 stack[k].fn = "parse" => ~HasBracket(stack[k].chars)
           /\ (last.depth > 1 => last.op # "open_loop")

\* C16: every Loop Frame records positions of the original text, also the
\* frames pushed or completed while a loop body is re-run: its start is the
\* index of a '[' of the text, its end is 0 (not yet closed) or the index of
\* a ']' of the text after it.
C16_FramesHoldOriginalPositions ==
    \A k \in 1..Len(loops_data) :
        LET start == loops_data[k][1]
            end == loops_data[k][2]
        IN  /\ start < Len(file_content)
            /\ file_content[start + 1] = "["
            /\ end = 0 \/ (/\ start < end
                           /\ end < Len(file_content)
                           /\ file_content[end + 1] = "]")

\* C17: '[' never skips ahead, whatever the cell at the pointer holds: the
\* scan goes on with the character after it, so a loop body is dispatched
\* once before any test.  The cell is tested only by a call made while a ']'
\* is being processed.
C17_OpenLoopNeverSkips ==
    /\ last.op = "open_loop"
          => /\ status = "running"
             /\ Len(stack) = last.depth
             /\ Top.fn = "parse"
             /\ Top.index = last.index + 1
             /\ loops_data # <<>>
             /\ loops_data[Len(loops_data)] = <<last.index, 0>>
             /\ cell_index = last.ptr
             /\ Cell(cells, cell_index) = last.cell
    /\ \A k \in 1..Len(stack) :
          stack[k].fn = "execute_loop_context"
              => /\ k > 1
                 /\ stack[k - 1].fn = "parse"
                 /\ stack[k - 1].index >= 1
                 /\ stack[k - 1].chars[stack[k - 1].index] = "]"

\* the body of `[+]` has run although the cell was zero at '['
C17_Witness ==
    /\ file_content = <<"[", "+", "]">>
    /\ last.op = "increment"
    /\ last.depth = 1
    /\ last.index = 1
    /\ last.cell = 0
    /\ Cell(cells, cell_index) = 255

\* text[i] is a '[' that no ']' follows
UnmatchedOpen(text, i) ==
    /\ text[i] = "["
    /\ \A j \in (i + 1)..Len(text) : text[j] # "]"

PastUnmatchedOpen ==
    /\ status = "running"
    /\ Len(stack) >= 1
    /\ \E i \in 1..stack[1].index : UnmatchedOpen(file_content, i)

\* the run has just aborted on a frame whose end is 0
MissingEnclosing ==
    /\ status = "panic"
    /\ stderr # <<>>
    /\ stderr[Len(stderr)] = "panic: Missing enclosing ']'"

SameButAt(cs, ds, p) ==
    \A j \in (DOMAIN cs \cup DOMAIN ds) \ {p} : Cell(cs, j) = Cell(ds, j)

\* C19: '+', '-' and ',' change only the cell at the pointer; '<' and '>'
\* change only the pointer; '.' and a non-operator character change neither;
\* none of them changes the Loop Stack or the open-loop counter.
C19_NonBracketInstructionsFrame ==
    [][/\ last'.op \in {"increment", "decrement", "input"}
          => /\ cell_index' = cell_index
             /\ SameButAt(cells, cells', cell_index)
       /\ last'.op \in {"goto_next_cell", "goto_previous_cell"}
          => cells' = cells
       /\ last'.op \in {"print", "comment"}
          => /\ cells' = cells
             /\ cell_index' = cell_index
       /\ last'.op \in {"increment", "decrement", "input", "goto_next_cell",
                        "goto_previous_cell", "print", "comment"}
          => /\ loops_data' = loops_data
             /\ loops_opened' = loops_opened]_vars

\* `+>,` on the input 65: ',' stored 65 in cell 1 and left cell 0 and the
\* pointer alone
C19_Witness ==
    /\ last.op = "input"
    /\ last.ptr = 1
    /\ cell_index = 1
    /\ Cell(cells, 1) = 65
    /\ Cell(cells, 0) = 255

====
